---- MODULE Spec2Model ----
(***************************************************************************)
(* Model of the Bonjour repeater: bonjour-repeater.py (class               *)
(* BonjourRepeater driven by repeatloop) and its single-purpose ancestor   *)
(* airprint.py (module-level functions driven by the loop at the end of    *)
(* the file).  The variable prog says which of the two programs runs.      *)
(*                                                                         *)
(* The transport (pybonjour) is the environment: every call of             *)
(* DNSServiceProcessResult reads one reply and calls the handle's callback *)
(* once, with arguments the environment chooses; select either reports the *)
(* handle ready or times out; DNSServiceResolve and DNSServiceRegister     *)
(* either return a new handle or raise BonjourError.  KeyboardInterrupt is *)
(* an exception raised between two statements of the loop or the handler.  *)
(***************************************************************************)
EXTENDS Naturals, Sequences, FiniteSets, TLC

VARIABLES
    prog,       \* "repeater" (bonjour-repeater.py) or "airprint" (airprint.py)
    afields,    \* self.afields: TXT fields to add (key -> value)
    rfields,    \* self.rfields: TXT fields to replace (key -> value)
    restrict,   \* self.restrict: host restriction or None
    restrictArg,\* the restrict argument the constructor was given
    repeater,   \* self.repeater: rptkey -> registration handle
    cbresult,   \* self.cbresult: the callback result buffer (a list)
    browse,     \* self.browse: the loop's run flag
    refs,       \* every DNSServiceRef ever created, by index
    browseref,  \* repeatloop's browseref (0: not created)
    pc,         \* position of the single thread of control
    exc,        \* exception being propagated ("none" when there is none)
    excAt,      \* where it was raised ("none" when there is none)
    call,       \* arguments and locals of the running browser() call
    nnotif,     \* number of browse notifications delivered so far
    quota,      \* number of browse notifications the transport will deliver
    run         \* history of the current/last browser() call

vars == <<prog, afields, rfields, restrict, restrictArg, repeater, cbresult, browse, refs,
          browseref, pc, exc, excAt, call, nnotif, quota, run>>

config == <<prog, afields, rfields, restrict, restrictArg, quota>>

(***************************************************************************)
(* Bounds of the model.                                                    *)
(***************************************************************************)
MaxNotifs == 3       \* notifications delivered under Spec
MaxNotifsAll == 2    \* notifications delivered under SpecAll
MaxNotifsLive == 2   \* notifications delivered under SpecLive

(***************************************************************************)
(* Values.                                                                 *)
(***************************************************************************)
None == "None"
NoError == "kDNSServiceErr_NoError"
Unknown == "kDNSServiceErr_Unknown"
ErrorCodes == {NoError, Unknown}

\* TXT record keys and values seen on the network or configured.
URF == "URF"
TxtKeys == {URF, "ty", "rp"}
AppendKeys == {URF, "ty"}      \* keys that -f options name
ReplaceKeys == {"ty", "rp"}    \* keys that -F options name
OldVal == "v1"                 \* a value found on the network
NewVal == "W8,CP1,RS600-600"   \* the value of a -f option
ReplVal == "v2"                \* the value of a -F option

\* A TXT record / a field dictionary: a function from some keys to values.
DictsOver(keys, vals) == UNION {[S -> vals] : S \in SUBSET keys}
TxtRecords == DictsOver(TxtKeys, {OldVal})
EmptyDict == [k \in {} |-> OldVal]

Hosts == {"printer.local.", "other.local."}
Ports == {631}

\* Service names are sequences of words; prefix is the mirror prefix.
prefix == <<"AirPrint">>
Names == {<<"Laser">>, <<"AirPrint", " ", "Laser">>}
svctype == "_ipp._tcp"
domain == "local."
Ifaces == {1}

\* dict update d[k] = v
DictSet(d, k, v) == [x \in DOMAIN d \cup {k} |-> IF x = k THEN v ELSE d[x]]
\* Faulty variant of DictDel: the entry stays.
DictKeep(d, k) == d

\* del d[k]
DictDel(d, k) == [x \in DOMAIN d \ {k} |-> d[x]]

\* Values deposited in the result buffer: None, True/False, or the list
\* [tgt, port, txtdict].  The field "by" is history: the handle whose
\* callback deposited the value (0: none did).
Value(tag, val, tgt, port, txt) ==
    [tag |-> tag, val |-> val, tgt |-> tgt, port |-> port, txt |-> txt, by |-> 0]
NoneVal == Value("None", FALSE, None, 0, EmptyDict)
BoolVal(b) == Value("bool", b, None, 0, EmptyDict)
RecVal(tgt, port, txt) == Value("rec", FALSE, tgt, port, txt)
Stamp(vals, h) == [i \in 1..Len(vals) |-> [vals[i] EXCEPT !.by = h]]

\* Python truth value of a buffer value: None and False are false, True and
\* a non-empty list are true.
Truthy(v) == \/ v.tag = "rec"
             \/ v.tag = "bool" /\ v.val

\* A handle: what it was created for, the number of close() calls made on
\* it, and history: whether its register callback reported success and
\* whether it was ever put in the table.
NewRef(kind, key, name) ==
    [kind |-> kind, key |-> key, name |-> name, closes |-> 0,
     confirmed |-> FALSE, stored |-> FALSE]

\* sdRef.close(): one more close call on handle h
Close(rs, h) == [rs EXCEPT ![h].closes = @ + 1]

IsOpen(h) == refs[h].closes = 0
OpenRefs == {h \in 1..Len(refs) : IsOpen(h)}

NoKey == <<>>
NoCall == [svc |-> <<>>, ifidx |-> 0, add |-> FALSE, err |-> NoError,
           rptkey |-> NoKey, resref |-> 0, regref |-> 0,
           rec |-> NoneVal, ok |-> NoneVal]

\* The arguments of a resolver callback (err = None: no callback yet).
NoIn == [err |-> None, tgt |-> None, port |-> 0, txt |-> EmptyDict]

NoRun == [done |-> FALSE, tab0 |-> EmptyDict,
          cb0 |-> <<>>, refs0 |-> <<>>, tabEvict |-> EmptyDict,
          nres |-> 0, nreg |-> 0, resin |-> NoIn, reserr |-> FALSE,
          inserted |-> 0,
          published |-> [tgt |-> None, port |-> 0, txt |-> EmptyDict]]


(***************************************************************************)
(* The callbacks.  Each returns the list of values it appends to the       *)
(* result buffer.                                                          *)
(***************************************************************************)

\* register(): False after a failed registration, True after a good one.
register(err) ==
    IF err # NoError THEN <<BoolVal(FALSE)>> ELSE <<BoolVal(TRUE)>>

\* Faulty variant of AddFields: an existing key is overwritten instead of refused.
RECURSIVE AddFieldsOverwrites(_, _, _)
AddFieldsOverwrites(txtdict, keys, todo) ==
    IF todo = {} THEN [ok |-> TRUE, txt |-> txtdict]
    ELSE LET k == CHOOSE x \in todo : TRUE
         IN  AddFieldsOverwrites(DictSet(txtdict, k, afields[k]), keys, todo \ {k})

\* The loop "for k, v in self.afields.items()": a field whose key is among
\* the original keys stops the loop with a failure, any other is set.
RECURSIVE AddFields(_, _, _)
AddFields(txtdict, keys, todo) ==
    IF todo = {} THEN [ok |-> TRUE, txt |-> txtdict]
    ELSE LET k == CHOOSE x \in todo : TRUE
         IN  IF k \in keys THEN [ok |-> FALSE, txt |-> txtdict]
             ELSE AddFields(DictSet(txtdict, k, afields[k]), keys, todo \ {k})

\* Faulty variant of ReplaceFields: the key is looked up in the record as the add
\* step left it, not among the original keys.
RECURSIVE ReplaceFieldsChecksCurrent(_, _, _)
ReplaceFieldsChecksCurrent(txtdict, keys, todo) ==
    IF todo = {} THEN [ok |-> TRUE, txt |-> txtdict]
    ELSE LET k == CHOOSE x \in todo : TRUE
         IN  IF k \notin DOMAIN txtdict THEN [ok |-> FALSE, txt |-> txtdict]
             ELSE ReplaceFieldsChecksCurrent(DictSet(txtdict, k, rfields[k]),
                                             keys, todo \ {k})

\* Faulty variant of ReplaceFields: the key is checked but the value is not set.
RECURSIVE ReplaceFieldsKeepsValue(_, _, _)
ReplaceFieldsKeepsValue(txtdict, keys, todo) ==
    IF todo = {} THEN [ok |-> TRUE, txt |-> txtdict]
    ELSE LET k == CHOOSE x \in todo : TRUE
         IN  IF k \notin keys THEN [ok |-> FALSE, txt |-> txtdict]
             ELSE ReplaceFieldsKeepsValue(txtdict, keys, todo \ {k})

\* The loop "for k, v in self.rfields.items()": a field whose key is not
\* among the original keys stops the loop with a failure, any other is set.
RECURSIVE ReplaceFields(_, _, _)
ReplaceFields(txtdict, keys, todo) ==
    IF todo = {} THEN [ok |-> TRUE, txt |-> txtdict]
    ELSE LET k == CHOOSE x \in todo : TRUE
         IN  IF k \notin keys THEN [ok |-> FALSE, txt |-> txtdict]
             ELSE ReplaceFields(DictSet(txtdict, k, rfields[k]), keys, todo \ {k})

\* The host restriction test of resolver().
Restricted(tgt) == restrict # None /\ restrict # tgt

\* Faulty variant of resolver: the return after the host restriction is
\* missing, so the rest of the callback runs and deposits again.
resolverFallsThrough(err, tgt, port, txt) ==
    IF err # NoError THEN <<>>
    ELSE LET keys == DOMAIN txt
             a == AddFields(txt, keys, DOMAIN afields)
             r == ReplaceFields(a.txt, keys, DOMAIN rfields)
             rest == IF ~a.ok \/ ~r.ok THEN <<NoneVal>>
                     ELSE <<RecVal(tgt, port, r.txt)>>
         IN  IF Restricted(tgt) THEN <<NoneVal>> \o rest ELSE rest

\* Faulty variant of resolver: a resolution error deposits None.
resolverDepositsOnError(err, tgt, port, txt) ==
    IF err # NoError THEN <<NoneVal>>
    ELSE LET keys == DOMAIN txt
         IN  IF Restricted(tgt) THEN <<NoneVal>>
             ELSE LET a == AddFields(txt, keys, DOMAIN afields)
                  IN  IF ~a.ok THEN <<NoneVal>>
                      ELSE LET r == ReplaceFields(a.txt, keys, DOMAIN rfields)
                           IN  IF ~r.ok THEN <<NoneVal>>
                               ELSE <<RecVal(tgt, port, r.txt)>>

\* BonjourRepeater.resolver()
resolver(err, tgt, port, txt) ==
    IF err # NoError THEN <<>>
    ELSE LET keys == DOMAIN txt
         IN  IF Restricted(tgt) THEN <<NoneVal>>
             ELSE LET a == AddFields(txt, keys, DOMAIN afields)
                  IN  IF ~a.ok THEN <<NoneVal>>
                      ELSE LET r == ReplaceFields(a.txt, keys, DOMAIN rfields)
                           IN  IF ~r.ok THEN <<NoneVal>>
                               ELSE <<RecVal(tgt, port, r.txt)>>

\* airprint.py: urf, and resolver()
urf == <<URF, NewVal>>
air_resolver(err, tgt, port, txt) ==
    IF err # NoError THEN <<>>
    ELSE IF urf[1] \in DOMAIN txt THEN <<NoneVal>>
    ELSE <<RecVal(tgt, port, DictSet(txt, urf[1], urf[2]))>>

\* The resolver callback of the running program.
ResolverOf(err, tgt, port, txt) ==
    IF prog = "repeater" THEN resolver(err, tgt, port, txt)
    ELSE air_resolver(err, tgt, port, txt)

\* rptkey = ','.join(repr(s) for s in [svc, rtype, dom, ifidx])
RptKey(svc, rtype, dom, ifidx) == <<svc, rtype, dom, ifidx>>

\* rptname = self.prefix + ' ' + svc
RptName(svc) == prefix \o <<" ">> \o svc

\* airprint.py: serviceName[:len(prefix)] == prefix
HasPrefix(svc) ==
    Len(svc) >= Len(prefix) /\ SubSeq(svc, 1, Len(prefix)) = prefix

(***************************************************************************)
(* Initial state: after BonjourRepeater.__init__ (or after the module      *)
(* level assignments of airprint.py).                                      *)
(***************************************************************************)
\* The configurations of bonjour-repeater.py: at least one field to add,
\* any fields to replace, a host restriction or none.
Configs ==
    [afields : DictsOver(AppendKeys, {NewVal}) \ {EmptyDict},
     rfields : DictsOver(ReplaceKeys, {ReplVal}),
     restrict : {None, "", "printer.local."}]

\* Two of them: "-f URF=... -F ty=..." restricted to the local host, and
\* "-f URF=... -n".
MainConfigs ==
    {[afields |-> [k \in {URF} |-> NewVal], rfields |-> [k \in {"ty"} |-> ReplVal],
      restrict |-> "printer.local."],
     [afields |-> [k \in {URF} |-> NewVal], rfields |-> EmptyDict,
      restrict |-> None]}

InitRest ==
    /\ repeater = EmptyDict
    /\ cbresult = <<>>
    /\ browse = FALSE
    /\ refs = <<>>
    /\ browseref = 0
    /\ pc = "idle"
    /\ exc = "none"
    /\ excAt = "none"
    /\ call = NoCall
    /\ nnotif = 0
    /\ run = NoRun

\* Faulty variant of SetRestrict: an empty string is kept as a restriction.
SetRestrictKeepsEmpty(arg) == arg

\* "if restrict is not None and len(restrict) > 0: self.restrict = restrict
\*  else: self.restrict = None"
SetRestrict(arg) == IF arg # None /\ arg # "" THEN arg ELSE None

InitConfig(cfgs) ==
    /\ prog \in {"repeater", "airprint"}
    /\ IF prog = "repeater"
       THEN \E c \in cfgs : /\ afields = c.afields
                            /\ rfields = c.rfields
                            /\ restrictArg = c.restrict
                            /\ restrict = SetRestrict(c.restrict)
       ELSE /\ afields = [k \in {urf[1]} |-> urf[2]]
            /\ rfields = EmptyDict
            /\ restrictArg = None
            /\ restrict = None

Init ==
    /\ InitConfig(MainConfigs)
    /\ quota = MaxNotifs
    /\ InitRest

\* Every configuration, with a shorter run.
InitAll ==
    /\ InitConfig(Configs)
    /\ quota = MaxNotifsAll
    /\ InitRest

(***************************************************************************)
(* repeatloop (and the loop at the end of airprint.py)                     *)
(***************************************************************************)

\* browseref = mdns.DNSServiceBrowse(...); self.browse = True
StartBrowse ==
    /\ pc = "idle"
    /\ refs' = Append(refs, NewRef("browse", NoKey, <<>>))
    /\ browseref' = Len(refs) + 1
    /\ browse' = TRUE
    /\ pc' = "loop"
    /\ UNCHANGED <<config, repeater, cbresult, exc, excAt, call, nnotif, run>>

\* "while self.browse:" (airprint.py: "while True:")
LoopTest ==
    /\ pc = "loop"
    /\ pc' = IF prog = "airprint" \/ browse THEN "select" ELSE "finally"
    /\ UNCHANGED <<config, repeater, cbresult, browse, refs, browseref, exc, excAt,
                   call, nnotif, run>>

\* select times out on the browse handle (airprint.py selects without a
\* timeout and blocks instead).
SelectTimeout ==
    /\ pc = "select"
    /\ prog = "repeater"
    /\ pc' = "loop"
    /\ UNCHANGED <<config, repeater, cbresult, browse, refs, browseref, exc, excAt,
                   call, nnotif, run>>

\* What a browse reply carries: an error code and nothing else, or a
\* service instance with the Add flag set or clear.
BrowseReplies ==
    {[svc |-> <<>>, ifidx |-> 0, add |-> FALSE, err |-> e] :
        e \in ErrorCodes \ {NoError}}
    \cup [svc : Names, ifidx : Ifaces, add : BOOLEAN, err : {NoError}]

\* The browse handle is ready: DNSServiceProcessResult(browseref) calls
\* browser(sdRef, flags, ifidx, err, svc, rtype, dom).
BrowseNotify(svc, ifidx, add, err) ==
    /\ pc = "select"
    /\ nnotif < quota
    /\ nnotif' = nnotif + 1
    /\ call' = [NoCall EXCEPT !.svc = svc, !.ifidx = ifidx, !.add = add,
                              !.err = err]
    /\ run' = [NoRun EXCEPT !.tab0 = repeater,
                    !.cb0 = cbresult, !.refs0 = refs,
                    !.tabEvict = repeater]
    /\ pc' = "b_err"
    /\ UNCHANGED <<config, repeater, cbresult, browse, refs, browseref, exc, excAt>>

\* browser() returns to DNSServiceProcessResult and the loop.
Return == /\ pc' = "b_ret"
          /\ run' = [run EXCEPT !.done = TRUE]

\* An exception leaves browser() and DNSServiceProcessResult for the
\* finally clause of the loop; the locals of browser() are gone.
Unwind == /\ pc' = "finally"
          /\ call' = NoCall
          /\ run' = NoRun

\* DNSServiceProcessResult(browseref) returns; the loop goes on.
Resume ==
    /\ pc = "b_ret"
    /\ pc' = "loop"
    /\ call' = NoCall
    /\ run' = NoRun
    /\ UNCHANGED <<config, repeater, cbresult, browse, refs, browseref, exc, excAt,
                   nnotif>>


(***************************************************************************)
(* browser(): the add/remove handler                                       *)
(***************************************************************************)

\* "if err != mdns.kDNSServiceErr_NoError: return", then the key is built.
BrowserErrCheck ==
    /\ pc = "b_err"
    /\ IF call.err # NoError
       THEN /\ Return
            /\ call' = call
       ELSE /\ call' = [call EXCEPT
                 !.rptkey = RptKey(call.svc, svctype, domain, call.ifidx)]
            /\ pc' = "b_evict"
            /\ run' = run
    /\ UNCHANGED <<config, repeater, cbresult, browse, refs, browseref, exc, excAt,
                   nnotif>>

\* Faulty variant of EvictClose: the old entry is evicted for a remove only.
EvictCloseRemoveOnly ==
    /\ pc = "b_evict"
    /\ IF call.rptkey \in DOMAIN repeater /\ ~call.add
       THEN /\ refs' = Close(refs, repeater[call.rptkey])
            /\ pc' = "b_del"
       ELSE /\ refs' = refs
            /\ pc' = "b_flags"
    /\ UNCHANGED <<config, repeater, cbresult, browse, browseref, exc, excAt, call,
                   nnotif, run>>

\* Faulty variant of EvictClose: the entry is deleted without closing its handle.
EvictForgetsClose ==
    /\ pc = "b_evict"
    /\ pc' = IF call.rptkey \in DOMAIN repeater THEN "b_del" ELSE "b_flags"
    /\ UNCHANGED <<config, repeater, cbresult, browse, refs, browseref, exc, excAt,
                   call, nnotif, run>>

\* "self.repeater[rptkey].close()": KeyError when the key is not in the
\* table, which skips the rest of the try block.
EvictClose ==
    /\ pc = "b_evict"
    /\ IF call.rptkey \in DOMAIN repeater
       THEN /\ refs' = Close(refs, repeater[call.rptkey])
            /\ pc' = "b_del"
       ELSE /\ refs' = refs
            /\ pc' = "b_flags"
    /\ UNCHANGED <<config, repeater, cbresult, browse, browseref, exc, excAt, call,
                   nnotif, run>>

\* "del self.repeater[rptkey]"
EvictDel ==
    /\ pc = "b_del"
    /\ repeater' = DictDel(repeater, call.rptkey)
    /\ run' = [run EXCEPT !.tabEvict = repeater']
    /\ pc' = "b_flags"
    /\ UNCHANGED <<config, cbresult, browse, refs, browseref, exc, excAt, call,
                   nnotif>>

\* Faulty variant of StopsAfterEvict: the test of the Add flag is inverted.
StopsAfterEvictInverted ==
    \/ call.add
    \/ prog = "airprint" /\ HasPrefix(call.svc)

\* Faulty variant of StopsAfterEvict: the name is not looked at.
StopsAfterEvictNoGuard == ~call.add

\* The handler stops here for a removed service (and, in airprint.py, for a
\* name that starts with the prefix).
StopsAfterEvict ==
    \/ ~call.add
    \/ prog = "airprint" /\ HasPrefix(call.svc)

\* "if not (flags & mdns.kDNSServiceFlagsAdd): return"
FlagsCheck ==
    /\ pc = "b_flags"
    /\ IF StopsAfterEvict
       THEN Return
       ELSE /\ pc' = "b_resolve"
            /\ run' = run
    /\ UNCHANGED <<config, repeater, cbresult, browse, refs, browseref, exc, excAt,
                   call, nnotif>>

\* "resref = mdns.DNSServiceResolve(...)" returns a handle.
ResolveIssue ==
    /\ pc = "b_resolve"
    /\ refs' = Append(refs, NewRef("resolve", call.rptkey, call.svc))
    /\ call' = [call EXCEPT !.resref = Len(refs) + 1]
    /\ run' = [run EXCEPT !.nres = @ + 1]
    /\ pc' = "b_try"
    /\ UNCHANGED <<config, repeater, cbresult, browse, browseref, exc, excAt, nnotif>>

\* DNSServiceResolve raises BonjourError: the call is outside the try
\* block, so the exception leaves browser().
ResolveRaise ==
    /\ pc = "b_resolve"
    /\ exc' = "BonjourError"
    /\ excAt' = pc
    /\ Unwind
    /\ UNCHANGED <<config, repeater, cbresult, browse, refs, browseref, nnotif>>

\* "try:" is entered and self.wait(resref) is called.
EnterTry ==
    /\ pc = "b_try"
    /\ pc' = "res_test"
    /\ UNCHANGED <<config, repeater, cbresult, browse, refs, browseref, exc, excAt,
                   call, nnotif, run>>


(***************************************************************************)
(* wait(): the callback bridge.  pc is "res_test"/"res_select" while       *)
(* browser() waits on resref and "reg_test"/"reg_select" while it waits on *)
(* regref.                                                                 *)
(***************************************************************************)

\* Faulty variant of WaitPop: the last element is read but left in the list.
WaitPeek(cb) == [rec |-> cb[Len(cb)], cb |-> cb]

\* "rec = self.cbresult.pop()": the last element, and the rest of the list.
WaitPop(cb) == [rec |-> cb[Len(cb)], cb |-> SubSeq(cb, 1, Len(cb) - 1)]

\* "while not self.cbresult:" is false: the else clause pops the result
\* and wait returns it to browser().
WaitReturn(which, rec) ==
    IF which = "res"
    THEN /\ call' = [call EXCEPT !.rec = rec]
         /\ pc' = "b_rec"
    ELSE /\ call' = [call EXCEPT !.ok = rec]
         /\ pc' = "b_store"

\* The loop test of wait().
WaitTest(which) ==
    /\ pc = which \o "_test"
    /\ IF cbresult = <<>>
       THEN /\ pc' = which \o "_select"
            /\ UNCHANGED <<cbresult, call>>
       ELSE /\ cbresult' = WaitPop(cbresult).cb
            /\ WaitReturn(which, WaitPop(cbresult).rec)
    /\ UNCHANGED <<config, repeater, browse, refs, browseref, exc, excAt, nnotif, run>>

\* select times out: "break" leaves rec = None.
WaitTimeout(which) ==
    /\ pc = which \o "_select"
    /\ WaitReturn(which, NoneVal)
    /\ UNCHANGED <<config, repeater, cbresult, browse, refs, browseref, exc, excAt,
                   nnotif, run>>

\* What a resolve reply carries: an error code and nothing else, or a
\* target host, a port and a TXT record.
ResolveReplies ==
    {[NoIn EXCEPT !.err = e] : e \in ErrorCodes \ {NoError}}
    \cup [err : {NoError}, tgt : Hosts, port : Ports, txt : TxtRecords]

\* resref is ready: DNSServiceProcessResult(resref) calls the resolver.
ResolveCallback(err, tgt, port, txt) ==
    /\ pc = "res_select"
    /\ cbresult' = cbresult \o Stamp(ResolverOf(err, tgt, port, txt), call.resref)
    /\ run' = [run EXCEPT !.resin = [err |-> err, tgt |-> tgt, port |-> port,
                                     txt |-> txt],
                          !.reserr = @ \/ err # NoError]
    /\ pc' = "res_test"
    /\ UNCHANGED <<config, repeater, browse, refs, browseref, exc, excAt, call, nnotif>>

\* regref is ready: DNSServiceProcessResult(regref) calls register().
RegisterCallback(err) ==
    /\ pc = "reg_select"
    /\ cbresult' = cbresult \o Stamp(register(err), call.regref)
    /\ refs' = [refs EXCEPT ![call.regref].confirmed = (err = NoError)]
    /\ pc' = "reg_test"
    /\ UNCHANGED <<config, repeater, browse, browseref, exc, excAt, call, nnotif, run>>

(***************************************************************************)
(* browser(), continued: after the resolve wait                            *)
(***************************************************************************)

\* Faulty variant of RecCheck: the test for None is missing.
RecCheckIgnoresNone ==
    /\ pc = "b_rec"
    /\ pc' = "b_register"
    /\ UNCHANGED <<config, repeater, cbresult, browse, refs, browseref, exc, excAt,
                   call, nnotif, run>>

\* "if rec is None: raise mdns.BonjourError(...)"; the outer except clause
\* catches it and the finally clause follows.
RecCheck ==
    /\ pc = "b_rec"
    /\ pc' = IF call.rec.tag = "None" THEN "b_resclose" ELSE "b_register"
    /\ UNCHANGED <<config, repeater, cbresult, browse, refs, browseref, exc, excAt,
                   call, nnotif, run>>

\* "regref = mdns.DNSServiceRegister(0, ifidx, rptname, self.rpttype, dom,
\*  rec[0], rec[1], rec[2], self.register)" returns a handle.
RegisterIssue ==
    /\ pc = "b_register"
    /\ refs' = Append(refs, NewRef("register", call.rptkey, RptName(call.svc)))
    /\ call' = [call EXCEPT !.regref = Len(refs) + 1]
    /\ run' = [run EXCEPT !.nreg = @ + 1,
                          !.published = [tgt |-> call.rec.tgt, port |-> call.rec.port,
                                         txt |-> call.rec.txt]]
    /\ pc' = "reg_test"
    /\ UNCHANGED <<config, repeater, cbresult, browse, browseref, exc, excAt, nnotif>>

\* DNSServiceRegister raises BonjourError: caught by the outer except.
RegisterRaise ==
    /\ pc = "b_register"
    /\ pc' = "b_resclose"
    /\ UNCHANGED <<config, repeater, cbresult, browse, refs, browseref, exc, excAt,
                   call, nnotif, run>>

\* "if self.wait(regref): self.repeater[rptkey] = regref
\*  else: raise mdns.BonjourError(...)"
Store ==
    /\ pc = "b_store"
    /\ IF Truthy(call.ok)
       THEN /\ repeater' = DictSet(repeater, call.rptkey, call.regref)
            /\ refs' = [refs EXCEPT ![call.regref].stored = TRUE]
            /\ run' = [run EXCEPT !.inserted = call.regref]
            /\ pc' = "b_resclose"
       ELSE /\ pc' = "b_regclose"
            /\ UNCHANGED <<repeater, refs, run>>
    /\ UNCHANGED <<config, cbresult, browse, browseref, exc, excAt, call, nnotif>>

\* Faulty variant of RegClose: the failed registration is not closed.
RegCloseForgets ==
    /\ pc = "b_regclose"
    /\ pc' = "b_resclose"
    /\ UNCHANGED <<config, repeater, cbresult, browse, refs, browseref, exc, excAt,
                   call, nnotif, run>>

\* "except mdns.BonjourError: regref.close()"
RegClose ==
    /\ pc = "b_regclose"
    /\ refs' = Close(refs, call.regref)
    /\ pc' = "b_resclose"
    /\ UNCHANGED <<config, repeater, cbresult, browse, browseref, exc, excAt, call,
                   nnotif, run>>

\* Faulty variant of ResClose: the close follows the try statement instead
\* of standing in a finally clause, so a propagating exception skips it.
ResCloseNotFinally ==
    /\ pc = "b_resclose"
    /\ IF exc = "none"
       THEN /\ refs' = Close(refs, call.resref)
            /\ Return
            /\ call' = call
       ELSE /\ refs' = refs
            /\ Unwind
    /\ UNCHANGED <<config, repeater, cbresult, browse, browseref, exc, excAt, nnotif>>

\* "finally: resref.close()"; then browser() returns, or the exception
\* that was being propagated goes on to the loop.
ResClose ==
    /\ pc = "b_resclose"
    /\ refs' = Close(refs, call.resref)
    /\ IF exc = "none"
       THEN /\ Return
            /\ call' = call
       ELSE Unwind
    /\ UNCHANGED <<config, repeater, cbresult, browse, browseref, exc, excAt, nnotif>>

(***************************************************************************)
(* Termination                                                             *)
(***************************************************************************)

\* "for v in list(self.repeater.values()): v.close()"
CloseAll(rs, hs) == [h \in 1..Len(rs) |->
                        IF h \in hs THEN [rs[h] EXCEPT !.closes = @ + 1] ELSE rs[h]]

Values(d) == {d[k] : k \in DOMAIN d}

\* The finally clause of repeatloop: close every handle of the table,
\* reset the table, close the browse handle.  airprint.py only closes the
\* browse handle.
Finally ==
    /\ pc = "finally"
    /\ IF prog = "repeater"
       THEN /\ refs' = Close(CloseAll(refs, Values(repeater)), browseref)
            /\ repeater' = EmptyDict
       ELSE /\ refs' = Close(refs, browseref)
            /\ repeater' = repeater
    /\ pc' = "done"
    /\ UNCHANGED <<config, cbresult, browse, browseref, exc, excAt, call, nnotif, run>>

\* Positions inside the outer try block of browser().
TryPcs == {"res_test", "res_select", "b_rec", "b_register", "reg_test",
           "reg_select", "b_store", "b_regclose"}
\* Positions of the loop and of browser() outside that try block.
OuterPcs == {"loop", "select", "b_err", "b_evict", "b_del", "b_flags",
             "b_resolve", "b_try", "b_resclose", "b_ret"}

\* KeyboardInterrupt is raised at the current position.  No except clause
\* of browser() catches it; inside the try block the finally clause runs.
Interrupt ==
    /\ exc = "none"
    /\ pc \in TryPcs \cup OuterPcs
    /\ exc' = "KeyboardInterrupt"
    /\ excAt' = pc
    /\ IF pc \in TryPcs
       THEN /\ pc' = "b_resclose"
            /\ UNCHANGED <<call, run>>
       ELSE Unwind
    /\ UNCHANGED <<config, repeater, cbresult, browse, refs, browseref, nnotif>>

\* Another thread sets self.browse to False (see repeatloop's docstring).
SetStop ==
    /\ prog = "repeater"
    /\ browse
    /\ pc \in TryPcs \cup OuterPcs
    /\ browse' = FALSE
    /\ UNCHANGED <<config, repeater, cbresult, refs, browseref, pc, exc, excAt, call,
                   nnotif, run>>

Next ==
    \/ StartBrowse
    \/ LoopTest
    \/ SelectTimeout
    \/ \E r \in BrowseReplies : BrowseNotify(r.svc, r.ifidx, r.add, r.err)
    \/ BrowserErrCheck
    \/ EvictClose
    \/ EvictDel
    \/ FlagsCheck
    \/ ResolveIssue
    \/ ResolveRaise
    \/ EnterTry
    \/ \E which \in {"res", "reg"} : WaitTest(which)
    \/ \E which \in {"res", "reg"} : WaitTimeout(which)
    \/ \E r \in ResolveReplies : ResolveCallback(r.err, r.tgt, r.port, r.txt)
    \/ \E err \in ErrorCodes : RegisterCallback(err)
    \/ RecCheck
    \/ RegisterIssue
    \/ RegisterRaise
    \/ Store
    \/ RegClose
    \/ ResClose
    \/ Resume
    \/ Finally
    \/ Interrupt
    \/ SetStop

Spec == Init /\ [][Next]_vars

SpecAll == InitAll /\ [][Next]_vars

\* The steps of the thread that runs repeatloop: every step of the program
\* but the two that come from outside (the interrupt and the stop flag).
\* The interpreter always executes the thread's next statement, and every
\* select call of bonjour-repeater.py returns within self.timeout with
\* either outcome, so the thread does not stand still while one of its
\* steps is possible.  Which outcome a select or a callback has is the
\* transport's choice and is left open.
Thread ==
    \/ StartBrowse
    \/ LoopTest
    \/ SelectTimeout
    \/ \E r \in BrowseReplies : BrowseNotify(r.svc, r.ifidx, r.add, r.err)
    \/ BrowserErrCheck
    \/ EvictClose
    \/ EvictDel
    \/ FlagsCheck
    \/ ResolveIssue
    \/ ResolveRaise
    \/ EnterTry
    \/ \E which \in {"res", "reg"} : WaitTest(which)
    \/ \E which \in {"res", "reg"} : WaitTimeout(which)
    \/ \E r \in ResolveReplies : ResolveCallback(r.err, r.tgt, r.port, r.txt)
    \/ \E err \in ErrorCodes : RegisterCallback(err)
    \/ RecCheck
    \/ RegisterIssue
    \/ RegisterRaise
    \/ Store
    \/ RegClose
    \/ ResClose
    \/ Resume
    \/ Finally

InitLive ==
    /\ InitConfig(MainConfigs)
    /\ quota = MaxNotifsLive
    /\ InitRest

\* The program with a thread that keeps running.
SpecLive == InitLive /\ [][Next]_vars /\ WF_vars(Thread)


(***************************************************************************)
(* Properties                                                              *)
(***************************************************************************)
Handles == 1..Len(refs)
RegRefs == {h \in Handles : refs[h].kind = "register"}
ResRefs == {h \in Handles : refs[h].kind = "resolve"}
InHandler == pc \notin {"idle", "loop", "select", "finally", "done"}

\* C1: in every state, two open registration handles never belong to the
\* same identity key; every table entry holds a registration handle made
\* for its key; and when the handler is about to insert (it stands at the
\* statement "if self.wait(regref): self.repeater[rptkey] = regref") the
\* table holds no entry for the key.
C1_OnePublicationPerIdentity ==
    /\ \A g, h \in RegRefs :
          (refs[g].key = refs[h].key /\ IsOpen(g) /\ IsOpen(h)) => g = h
    /\ \A k \in DOMAIN repeater :
          repeater[k] \in RegRefs /\ refs[repeater[k]].key = k
    /\ pc = "b_store" => call.rptkey \notin DOMAIN repeater

\* C1 witness: a second registration for an identity has been stored while
\* the first one, stored earlier for the same identity, is closed.
C1_Witness ==
    \E g, h \in RegRefs :
        /\ g # h
        /\ refs[g].key = refs[h].key
        /\ refs[g].stored /\ ~IsOpen(g)
        /\ refs[h].stored /\ IsOpen(h)
        /\ refs[h].key \in DOMAIN repeater /\ repeater[refs[h].key] = h

\* C2: once repeatloop has terminated, the table is empty and every handle
\* that was ever inserted into the table has been closed exactly once.
C2_ShutdownDrainsExactlyOnce ==
    (prog = "repeater" /\ pc = "done") =>
        /\ repeater = EmptyDict
        /\ \A h \in RegRefs : refs[h].stored => refs[h].closes = 1

\* C3: once repeatloop has terminated, every registration handle ever
\* created is closed, whether or not it was inserted into the table.
C3_NoPublicationOutlivesEngine ==
    (prog = "repeater" /\ pc = "done") =>
        \A h \in RegRefs : ~IsOpen(h)


\* What the specification calls an eligible resolution: the host passes
\* the restriction, no field to add is present, every field to replace is.
HostAllowed(tgt) == restrict = None \/ tgt = restrict
HasAppendKey(txt) == DOMAIN txt \cap DOMAIN afields # {}
LacksReplaceKey(txt) == DOMAIN rfields \ DOMAIN txt # {}
Eligible(r) ==
    /\ r.err = NoError
    /\ HostAllowed(r.tgt)
    /\ ~HasAppendKey(r.txt)
    /\ ~LacksReplaceKey(r.txt)

\* C4: whenever the running handler has inserted a handle, the resolver
\* callback of this run reported no error on an eligible record, the record
\* handed to the registration is the one that callback deposited for this
\* run's resolve handle, and the value taken as confirmation is the True
\* that the register callback deposited for the inserted handle itself;
\* every handle ever stored was confirmed by its own register callback, and
\* a wait never returns a value deposited for another handle.
C4_InsertOnlyAfterConfirmedAddPath ==
    /\ run.inserted # 0 =>
          /\ run.inserted = call.regref
          /\ Eligible(run.resin)
          /\ call.rec.tag = "rec" /\ call.rec.by = call.resref
          /\ call.ok.tag = "bool" /\ call.ok.val /\ call.ok.by = call.regref
          /\ refs[run.inserted].confirmed
          /\ refs[run.inserted].key = call.rptkey
    /\ \A h \in RegRefs : refs[h].stored => refs[h].confirmed
    /\ pc = "b_store" => call.ok.by \in {0, call.regref}
    /\ pc = "b_rec" => call.rec.by \in {0, call.resref}

\* C4 witness: the handler has returned after inserting a handle.
C4_Witness ==
    /\ pc = "b_ret"
    /\ run.inserted # 0
    /\ call.rptkey \in DOMAIN repeater
    /\ repeater[call.rptkey] = run.inserted

\* The notification being handled is a remove (Add flag clear, no error).
IsRemove == InHandler /\ call.err = NoError /\ ~call.add
\* The notification being handled is an add.
IsAdd == InHandler /\ call.err = NoError /\ call.add
\* The key of the notification being handled.
CallKey == RptKey(call.svc, svctype, domain, call.ifidx)

\* C5: when the handler has returned from a remove notification for an
\* identity that had a table entry, the table has no entry for it, the
\* handle that was stored for it has been closed (once), no resolve or
\* registration request was issued, and every other entry is as it was.
C5_RemoveEvicts ==
    (pc = "b_ret" /\ IsRemove /\ CallKey \in DOMAIN run.tab0) =>
        /\ CallKey \notin DOMAIN repeater
        /\ refs[run.tab0[CallKey]].closes = 1
        /\ run.nres = 0 /\ run.nreg = 0
        /\ Len(refs) = Len(run.refs0)
        /\ DOMAIN repeater = DOMAIN run.tab0 \ {CallKey}
        /\ \A k \in DOMAIN repeater : repeater[k] = run.tab0[k]

\* C5 witness: a remove for an identity with an entry has been handled
\* while another identity keeps its entry.
C5_Witness ==
    /\ pc = "b_ret" /\ IsRemove /\ CallKey \in DOMAIN run.tab0
    /\ repeater # EmptyDict

\* C6: when the handler has returned from a remove notification for an
\* identity that had no table entry, the table, the result buffer and all
\* the handles (their number and their close counts) are as they were when
\* the handler was entered, and no exception is being propagated.
C6_RemoveWithoutEntryIsNoOp ==
    (pc = "b_ret" /\ IsRemove /\ CallKey \notin DOMAIN run.tab0) =>
        /\ repeater = run.tab0
        /\ cbresult = run.cb0
        /\ refs = run.refs0
        /\ run.nres = 0 /\ run.nreg = 0
        /\ exc = "none"

\* C6 witness: such a remove has been handled while the table holds an
\* entry of another identity.
C6_Witness ==
    /\ pc = "b_ret" /\ IsRemove /\ CallKey \notin DOMAIN run.tab0
    /\ repeater # EmptyDict

\* C7: while an add notification for an identity that had a table entry is
\* handled, once the resolve request has been issued the old handle is
\* closed and the table holds no entry for the identity other than one this
\* run inserted; and when the handler returns without having inserted a
\* handle, the table has no entry for the identity.
C7_EvictionBeforeResolve ==
    (IsAdd /\ CallKey \in DOMAIN run.tab0) =>
        /\ run.nres > 0 =>
              /\ ~IsOpen(run.tab0[CallKey])
              /\ CallKey \in DOMAIN repeater =>
                    /\ run.inserted # 0
                    /\ repeater[CallKey] = run.inserted
                    /\ repeater[CallKey] # run.tab0[CallKey]
        /\ pc = "b_resolve" => CallKey \notin DOMAIN repeater
        /\ (pc = "b_ret" /\ run.inserted = 0) => CallKey \notin DOMAIN repeater

\* C7 witness: a re-add whose resolve was issued and did not lead to an
\* insertion has been handled.
C7_Witness ==
    /\ pc = "b_ret" /\ IsAdd /\ CallKey \in DOMAIN run.tab0
    /\ run.nres > 0 /\ run.inserted = 0


\* The record that the specification's transform yields for an eligible
\* original record: every field to add and every field to replace with its
\* configured value, every other key with its original value.
Transformed(txt) ==
    [k \in DOMAIN txt \cup DOMAIN afields \cup DOMAIN rfields |->
        IF k \in DOMAIN rfields THEN rfields[k]
        ELSE IF k \in DOMAIN afields THEN afields[k]
        ELSE txt[k]]

\* The value the resolver callback of this run has just deposited.
Deposited(v) == pc = "res_test" => cbresult = <<[v EXCEPT !.by = call.resref]>>
\* Nothing is requested or stored for this notification.
NotRepeated ==
    /\ run.nreg = 0
    /\ run.inserted = 0
    /\ CallKey \notin DOMAIN repeater
    /\ pc \notin {"res_test", "res_select"} => call.rec.tag = "None"

\* C8: when the resolver callback of the running handler got (without
\* error) a record that contains a key of the fields to add, it deposited
\* None, and no registration is requested and no table entry made for this
\* notification.
C8_AntiRecursion ==
    (IsAdd /\ run.resin.err = NoError /\ HasAppendKey(run.resin.txt)) =>
        /\ Deposited(NoneVal)
        /\ NotRepeated

\* C8 witness: the handler has returned after such a record, which passed
\* the host restriction and has every key of the fields to replace.
C8_Witness ==
    /\ pc = "b_ret" /\ IsAdd
    /\ run.resin.err = NoError /\ HasAppendKey(run.resin.txt)
    /\ HostAllowed(run.resin.tgt) /\ ~LacksReplaceKey(run.resin.txt)

\* C9: when the resolver callback of the running handler got (without
\* error) a record that lacks a key of the fields to replace, it deposited
\* None, and no registration is requested and no table entry made for this
\* notification, also when the missing key is one the fields to add supply.
C9_ReplacePrecondition ==
    (IsAdd /\ run.resin.err = NoError /\ LacksReplaceKey(run.resin.txt)) =>
        /\ Deposited(NoneVal)
        /\ NotRepeated

\* C9 witness: the handler has returned after a record that passed the
\* host restriction, has no key of the fields to add, and lacks a key of
\* the fields to replace that is also a field to add.
C9_Witness ==
    /\ pc = "b_ret" /\ IsAdd
    /\ run.resin.err = NoError
    /\ HostAllowed(run.resin.tgt) /\ ~HasAppendKey(run.resin.txt)
    /\ \E k \in DOMAIN rfields \cap DOMAIN afields : k \notin DOMAIN run.resin.txt

\* C10: when the resolver callback of the running handler got an eligible
\* record, it deposited the target, the port and the transformed record,
\* and what a registration request of this run publishes is exactly that.
C10_PublishedMetadata ==
    (IsAdd /\ Eligible(run.resin)) =>
        /\ Deposited(RecVal(run.resin.tgt, run.resin.port,
                            Transformed(run.resin.txt)))
        /\ run.nreg > 0 =>
              /\ run.published.txt = Transformed(run.resin.txt)
              /\ run.published.tgt = run.resin.tgt
              /\ run.published.port = run.resin.port

\* C10 witness: a record with a field to replace and a key that is neither
\* added nor replaced has been published and stored.
C10_Witness ==
    /\ pc = "b_ret" /\ IsAdd /\ Eligible(run.resin)
    /\ run.nreg > 0 /\ run.inserted # 0
    /\ rfields # EmptyDict
    /\ DOMAIN run.resin.txt \ (DOMAIN afields \cup DOMAIN rfields) # {}
    /\ \E k \in DOMAIN run.resin.txt : run.published.txt[k] = OldVal
    /\ \E k \in DOMAIN run.resin.txt : run.published.txt[k] = ReplVal


\* A host restriction was asked for: the restrict argument is a non-empty
\* string.
RestrictionConfigured == restrictArg # None /\ restrictArg # ""

\* C11: with a non-empty restrict argument, a resolver callback (without
\* error) whose target host differs from it deposits None whatever the
\* record is, and no registration is requested for the notification; with
\* restrict None or the empty string, a record that has no key of the
\* fields to add and every key of the fields to replace is deposited
\* transformed whatever the host is.
C11_HostRestriction ==
    (IsAdd /\ run.resin.err = NoError) =>
        /\ (RestrictionConfigured /\ run.resin.tgt # restrictArg) =>
              /\ Deposited(NoneVal)
              /\ NotRepeated
        /\ (~RestrictionConfigured /\ ~HasAppendKey(run.resin.txt)
                                   /\ ~LacksReplaceKey(run.resin.txt)) =>
              Deposited(RecVal(run.resin.tgt, run.resin.port,
                               Transformed(run.resin.txt)))

\* C11 witness: with a restriction configured, the handler has returned
\* after a resolution to another host whose record was otherwise fine.
C11_Witness ==
    /\ pc = "b_ret" /\ IsAdd /\ run.resin.err = NoError
    /\ RestrictionConfigured /\ run.resin.tgt # restrictArg
    /\ ~HasAppendKey(run.resin.txt) /\ ~LacksReplaceKey(run.resin.txt)


\* The instance name begins with the mirror prefix.
BeginsWithPrefix(svc) == \E n \in 1..Len(svc) : SubSeq(svc, 1, n) = prefix

\* Nothing is requested or stored by the running handler.
Ignored == run.nres = 0 /\ run.nreg = 0 /\ run.inserted = 0

\* C12 (as claimed, for both programs): while an add notification whose
\* name begins with the prefix is handled, no resolve request and no
\* registration request is issued and no table entry is created.
C12_PrefixGuardEverywhere ==
    (IsAdd /\ BeginsWithPrefix(call.svc)) => Ignored

\* C12 (amended): in airprint.py, while an add notification whose name
\* begins with the prefix is handled, no resolve request and no
\* registration request is issued and no table entry is created, and the
\* table never holds an entry for such a name.
C12_PrefixGuardAirprint ==
    prog = "airprint" =>
        /\ (IsAdd /\ BeginsWithPrefix(call.svc)) => Ignored
        /\ \A k \in DOMAIN repeater : ~BeginsWithPrefix(k[1])

\* C12 witness: airprint.py has handled an add for a prefixed name while
\* it repeats another service.
C12_Witness ==
    /\ prog = "airprint"
    /\ pc = "b_ret" /\ IsAdd /\ BeginsWithPrefix(call.svc)
    /\ repeater # EmptyDict


\* The resolve wait of the running handler has returned None: a timeout, or
\* the None that the resolver deposited.
ResolveGaveNone ==
    /\ IsAdd /\ run.nres > 0
    /\ pc \in {"b_rec", "b_register", "reg_test", "reg_select", "b_store",
               "b_regclose", "b_ret"}
    /\ call.rec.tag = "None"

\* C13: once the resolve wait of an add notification has returned None
\* (timeout or Ineligible), no registration request is issued and no entry
\* inserted for the notification, and the table stays as the eviction step
\* left it until the handler has returned.
C13_NoResultNoPublish ==
    ResolveGaveNone =>
        /\ run.nreg = 0
        /\ run.inserted = 0
        /\ pc \in {"b_rec", "b_ret"}
        /\ repeater = run.tabEvict

\* C13 witness: the handler has returned after a resolve wait that timed
\* out (no callback, or error callbacks only), having evicted the
\* identity's old entry and left another entry alone.
C13_Witness ==
    /\ ResolveGaveNone /\ pc = "b_ret"
    /\ run.resin.err # NoError
    /\ run.tab0 # run.tabEvict
    /\ repeater # EmptyDict

\* The register wait of the running handler has returned a false value:
\* the False that register() deposited, or None after a timeout.
RegisterFailed ==
    /\ IsAdd /\ run.nreg > 0
    /\ pc \in {"b_store", "b_regclose", "b_resclose", "b_ret"}
    /\ exc = "none"
    /\ ~Truthy(call.ok)

\* C14: after a register wait that gave False or timed out, the table holds
\* no entry for the identity and nothing is inserted, and when the handler
\* has returned the registration handle of the attempt has been closed
\* (once).
C14_FailedPublicationClosed ==
    RegisterFailed =>
        /\ run.inserted = 0
        /\ CallKey \notin DOMAIN repeater
        /\ ~refs[call.regref].stored
        /\ pc \in {"b_resclose", "b_ret"} => refs[call.regref].closes = 1

\* C14 witness: the handler has returned after a register callback that
\* reported an error.
C14_Witness ==
    /\ RegisterFailed /\ pc = "b_ret"
    /\ call.ok.tag = "bool"


\* Positions inside wait().
WaitPcs == {"res_test", "res_select", "reg_test", "reg_select"}
ClosedOnce(h) == refs[h].closes = 1

\* C15: every resolve handle is closed exactly once when the handler has
\* returned (whatever the outcome of the resolution and the registration)
\* and when the handler was left by an interrupt raised during a wait; no
\* resolve handle is open while the loop waits for a notification; and
\* until then the handle of the running handler is open and all earlier
\* ones are closed once.
C15_ResolveHandleReleased ==
    /\ pc \in {"loop", "select", "b_ret"} =>
          \A h \in ResRefs : ClosedOnce(h)
    /\ (pc \in {"finally", "done"} /\ excAt \in WaitPcs) =>
          \A h \in ResRefs : ClosedOnce(h)
    /\ (InHandler /\ pc # "b_ret") =>
          \A h \in ResRefs : IF h = call.resref THEN IsOpen(h) ELSE ClosedOnce(h)

\* C15 witness: the loop has terminated after an interrupt raised while
\* the handler waited for a registration.
C15_Witness ==
    /\ pc = "done" /\ exc = "KeyboardInterrupt"
    /\ excAt \in {"reg_test", "reg_select"}
    /\ ResRefs # {}


C17_SingleSlotBuffer ==
    /\ Len(cbresult) <= 1
    /\ (exc = "none" /\ pc \notin {"res_test", "reg_test"}) => cbresult = <<>>
    /\ (pc = "res_test" /\ cbresult # <<>>) => cbresult[1].by = call.resref
    /\ (pc = "reg_test" /\ cbresult # <<>>) => cbresult[1].by = call.regref

\* C17 witness: the registration wait is about to pop the one result its own
\* callback deposited, after the resolve wait has consumed the resolver's.
C17_Witness ==
    /\ pc = "reg_test" /\ exc = "none"
    /\ Len(cbresult) = 1
    /\ cbresult[1].by = call.regref
    /\ call.rec.tag = "rec"


\* C18: a wait that has begun eventually returns (or is left by an
\* exception): the thread does not stay inside wait forever.
InWait == prog = "repeater" /\ pc \in WaitPcs
C18_WaitTerminates == InWait ~> ~InWait

\* The registration callback deposits on every outcome, so the wait on a
\* registration handle does return; the wait that can go on forever is the
\* wait on the resolve handle.
InRegWait == prog = "repeater" /\ pc \in {"reg_test", "reg_select"}
RegWaitTerminates == InRegWait ~> ~InRegWait


\* C19: no error of handling one notification leaves browser(): a
\* BonjourError is never in flight outside the handler, and repeatloop leaves
\* its loop only on an interrupt or on the stop flag.
C19_PerInstanceErrorsStayInside ==
    prog = "repeater" =>
        /\ exc # "BonjourError"
        /\ pc \in {"finally", "done"} => (exc = "KeyboardInterrupt" \/ ~browse)


\* C20: once the stop flag is set while repeatloop runs, repeatloop
\* eventually terminates, with the table empty, every handle that was
\* stored in it closed and the browse handle closed.
Stopped == prog = "repeater" /\ ~browse /\ pc \notin {"idle", "done"}
Terminated ==
    /\ pc = "done"
    /\ repeater = EmptyDict
    /\ \A h \in RegRefs : refs[h].stored => ~IsOpen(h)
    /\ ~IsOpen(browseref)
C20_StopEventuallyHonoured == Stopped ~> Terminated

\* The stop flag is honoured in every run but those in which the resolve
\* wait goes on forever.
InResWait == prog = "repeater" /\ pc \in {"res_test", "res_select"}
StopHonouredUnlessWaitForever ==
    (<>[]InResWait) \/ C20_StopEventuallyHonoured

====
